---- MODULE Spec2Model ----
(***************************************************************************)
(* Model of the monch parser-combinator library (src/index.ts).            *)
(*                                                                         *)
(* A parser of the library is a closure.  Here a parser is a record that   *)
(* names the combinator that built it and holds what the closure captured  *)
(* (literal, predicate, callback, sub-parsers); the body of each closure   *)
(* is executed by the actions below on an explicit call stack, one frame   *)
(* per pending parser invocation.  Every frame logs the sub-parser         *)
(* invocations it makes and what they returned, so that a completed call   *)
(* can be compared with what its sub-parsers did.                          *)
(***************************************************************************)
EXTENDS Integers, Sequences, FiniteSets, TLC

\* ------------------------------------------------------------------ bounds
MaxLen == 3
MaxIter == 6

\* ---------------------------------------------------------------- alphabet
Quote == "\""
Alphabet == {"1", "a", ",", " ", Quote}
whitespaceRegex == {" "}
numericRegex == {"1"}
alphaRegex == {"a"}

RECURSIVE CodesOfLen(_)
CodesOfLen(n) ==
    IF n = 0 THEN {<<>>}
    ELSE {Append(s, ch) : s \in CodesOfLen(n - 1), ch \in Alphabet}

Codes == UNION {CodesOfLen(n) : n \in 0..MaxLen}

\* ----------------------------------------------------- values and results
\* Parsed values: JS undefined, strings (sequences of characters) and arrays.
undef == [t |-> "undefined", s |-> <<>>, a |-> <<>>]
Str(s) == [t |-> "string", s |-> s, a |-> <<>>]
Arr(a) == [t |-> "array", s |-> <<>>, a |-> a]
length(v) == IF v.t = "string" THEN Len(v.s) ELSE Len(v.a)

ParseInput(code, index) == [code |-> code, index |-> index]
ParseSource(code, start, end) == [code |-> code, start |-> start, end |-> end]

NoInput == ParseInput(<<>>, 0)
NoSource == ParseSource(<<>>, 0, 0)
NoError == [msg |-> "", index |-> 0]

\* The `undefined` member of ParseResult.
undefined ==
    [kind |-> "undefined", input |-> NoInput, src |-> NoSource,
     parsed |-> undef, error |-> NoError]

Success(parsed, in, src) ==
    [kind |-> "success", input |-> in, src |-> src,
     parsed |-> parsed, error |-> NoError]

Failure(in, error) ==
    [kind |-> "error", input |-> in, src |-> NoSource,
     parsed |-> undef, error |-> error]

input(code) == ParseInput(code, 0)

\* s.substring(index).startsWith(str)
startsWith(code, index, str) ==
    /\ index + Len(str) <= Len(code)
    /\ \A k \in 1..Len(str) : code[index + k] = str[k]

\* ------------------------------------------------------ callbacks (inputs)
\* Predicates handed to filter.
Pred(name, v) ==
    CASE name = "whitespace" -> \E k \in 1..Len(v.s) : v.s[k] \in whitespaceRegex
      [] name = "numeric" -> \E k \in 1..Len(v.s) : v.s[k] \in numericRegex
      [] name = "alpha" -> \E k \in 1..Len(v.s) : v.s[k] \in alphaRegex
      [] name = "notQuote" -> v.s # <<Quote>>
      [] name = "lengthGt0" -> length(v) > 0
      [] OTHER -> FALSE

\* Functions handed to map.
Fn(name, parsed, src) ==
    CASE name = "contents" -> parsed.a[2]
      [] OTHER -> undef

\* Error callbacks handed to required: the payload names the callback and
\* the index of the ParseInput the callback received.
ErrorFn(name, in) == [msg |-> name, index |-> in.index]

\* ----------------------------------------------------------------- parsers
Parser(kind) ==
    [ref |-> 0, kind |-> kind, str |-> <<>>, pred |-> "", fn |-> "",
     error |-> "", parsers |-> <<>>]

\* A parser passed as `undefined` (manySep0's sep, precedence's startingFrom).
NoParser == Parser("undefined")

\* The same closure as a distinct function object (=== compares identity).
ref(n, parser) == [parser EXCEPT !.ref = n]

nothing == Parser("nothing")
exact(str) == [Parser("exact") EXCEPT !.str = str]
filter(parser, pred) ==
    [Parser("filter") EXCEPT !.parsers = <<parser>>, !.pred = pred]
map(parser, fn) == [Parser("map") EXCEPT !.parsers = <<parser>>, !.fn = fn]
required(parser, error) ==
    [Parser("required") EXCEPT !.parsers = <<parser>>, !.error = error]
char == Parser("char")
whitespaceChar == filter(char, "whitespace")
numericChar == filter(char, "numeric")
alphaChar == filter(char, "alpha")
optional(parser) == [Parser("optional") EXCEPT !.parsers = <<parser>>]
oneOf(possibilities) == [Parser("oneOf") EXCEPT !.parsers = possibilities]
tuple(pieces) == [Parser("tuple") EXCEPT !.parsers = pieces]
manySep0(item, sep) ==
    [Parser("manySep0") EXCEPT
        !.parsers = IF sep = NoParser THEN <<item>> ELSE <<item, sep>>]
manySep1(item, sep) == filter(manySep0(item, sep), "lengthGt0")
many0(item) == manySep0(item, NoParser)
many1(item) == manySep1(item, NoParser)
take0(charParser) == [Parser("take0") EXCEPT !.parsers = <<charParser>>]
take1(chParser) == filter(take0(chParser), "lengthGt0")
whitespace == map(take0(whitespaceChar), "toUndefined")

\* levels.indexOf(startingFrom): 0-based, -1 when absent.
indexOf(levels, startingFrom) ==
    IF \E k \in 1..Len(levels) : levels[k] = startingFrom
    THEN (CHOOSE k \in 1..Len(levels) :
            /\ levels[k] = startingFrom
            /\ \A j \in 1..(k - 1) : levels[j] # startingFrom) - 1
    ELSE -1

\* levels.slice(from); a negative `from` counts from the end
slice(levels, from) ==
    LET begin == IF from >= 0 THEN from
                 ELSE IF Len(levels) + from >= 0 THEN Len(levels) + from
                 ELSE 0
    IN  SubSeq(levels, begin + 1, Len(levels))

precedence_inclusive(levels, startingFrom) ==
    IF startingFrom = NoParser
    THEN oneOf(levels)
    ELSE oneOf(slice(levels, indexOf(levels, startingFrom)))

precedence(levels, startingFrom) ==
    IF startingFrom = NoParser
    THEN oneOf(levels)
    ELSE oneOf(slice(levels, indexOf(levels, startingFrom) + 1))


\* ------------------------------------------------- grammars under analysis
\* Parsers assembled from the exported combinators, after the JSON grammar
\* of deno_test.ts and the cases the library documents.
closingQuote == "Expected closing quote"
expectedDigit == "Expected numbers after decimal point"
expectedComma == "Expected comma"

string ==
    map(tuple(<<exact(<<Quote>>),
               take0(filter(char, "notQuote")),
               required(exact(<<Quote>>), closingQuote)>>),
        "contents")

number ==
    tuple(<<take1(numericChar),
            optional(tuple(<<exact(<<",">>),
                             required(take1(numericChar), expectedDigit)>>))>>)

commaWithWhitespace == tuple(<<whitespace, exact(<<",">>), whitespace>>)

Catalogue ==
    << nothing,
       char,
       exact(<<"a">>),
       exact(<<>>),
       exact(<<"1", ",">>),
       whitespaceChar,
       alphaChar,
       whitespace,
       filter(exact(<<"a">>), "numeric"),
       map(required(alphaChar, expectedDigit), "toUndefined"),
       required(exact(<<Quote>>), closingQuote),
       required(optional(numericChar), expectedDigit),
       required(required(numericChar, expectedDigit), closingQuote),
       optional(exact(<<"a">>)),
       optional(required(numericChar, expectedDigit)),
       oneOf(<<>>),
       oneOf(<<exact(<<"a">>), char>>),
       oneOf(<<numericChar, required(alphaChar, expectedDigit), char>>),
       oneOf(<<optional(numericChar), char>>),
       oneOf(<<filter(char, "notQuote"), exact(<<Quote>>)>>),
       tuple(<<>>),
       tuple(<<char, optional(exact(<<",">>)), required(numericChar, expectedDigit)>>),
       tuple(<<alphaChar, alphaChar>>),
       string,
       number,
       manySep0(numericChar, exact(<<",">>)),
       manySep0(numericChar, commaWithWhitespace),
       manySep0(tuple(<<alphaChar, required(numericChar, expectedDigit)>>),
                exact(<<",">>)),
       manySep0(char, required(exact(<<",">>), expectedComma)),
       manySep0(optional(numericChar), exact(<<",">>)),
       manySep0(nothing, nothing),
       manySep1(numericChar, exact(<<",">>)),
       manySep1(required(numericChar, expectedDigit), exact(<<",">>)),
       many0(numericChar),
       many0(optional(exact(<<"a">>))),
       many0(exact(<<>>)),
       many0(many0(char)),
       many1(alphaChar),
       many1(tuple(<<numericChar, required(exact(<<",">>), expectedComma)>>)),
       take0(numericChar),
       take0(required(numericChar, expectedDigit)),
       take0(exact(<<>>)),
       take1(numericChar),
       take1(oneOf(<<alphaChar, required(numericChar, expectedDigit)>>)) >>

\* Level lists handed to precedence; Level4 is the same closure text as
\* Level1 but a different function object.
Level1 == ref(1, exact(<<"a">>))
Level2 == ref(2, char)
Level3 == ref(3, required(numericChar, expectedDigit))
Level4 == ref(4, exact(<<"a">>))
Foreign == ref(5, char)

LevelLists ==
    << <<Level1, Level2, Level3, Level4>>,
       <<Level3, Level1, Level2>>,
       <<Level2, Level1, Level2, Level3>> >>

Markers == {NoParser, Level1, Level2, Level3, Level4, Foreign}

\* ------------------------------------------------------------------- state
VARIABLES
    stack,          \* pending parser invocations, innermost last
    ret,            \* the invocation that returned last, with its call log
    result,         \* what the outermost invocation returned
    levels,         \* precedence(...levels), or <<>> when not used
    startingFrom    \* the marker handed to the selector

vars == <<stack, ret, result, levels, startingFrom>>

Frame(parser, in) ==
    [p |-> parser, input |-> in, pc |-> "start", i |-> 1, nextInput |-> in,
     items |-> <<>>, text |-> <<>>, iter |-> 0, res |-> undefined,
     calls |-> <<>>]

NoEntry == [p |-> NoParser, input |-> NoInput, res |-> undefined, calls |-> <<>>]

Init ==
    /\ \E code \in Codes :
          \/ /\ \E k \in 1..Len(Catalogue) :
                    stack = <<Frame(Catalogue[k], input(code))>>
             /\ levels = <<>>
             /\ startingFrom = NoParser
          \/ \E l \in 1..Len(LevelLists), marker \in Markers :
                /\ levels = LevelLists[l]
                /\ startingFrom = marker
                /\ stack = <<Frame(precedence(LevelLists[l], marker), input(code))>>
    /\ ret = NoEntry
    /\ result = undefined

top == stack[Len(stack)]
running == stack # <<>>

\* The running closure invokes `parser` on `in`; `caller` is its own frame
\* as it stands while it waits.
Call(caller, parser, in) ==
    /\ stack' = SubSeq(stack, 1, Len(stack) - 1) \o <<caller, Frame(parser, in)>>
    /\ UNCHANGED <<ret, result, levels, startingFrom>>

\* The running closure moves on within its own body.
Step(frame) ==
    /\ stack' = [stack EXCEPT ![Len(stack)] = frame]
    /\ UNCHANGED <<ret, result, levels, startingFrom>>

\* The running closure returns r to its caller.
Return(r) ==
    LET entry == [p |-> top.p, input |-> top.input, res |-> r, calls |-> top.calls]
    IN  /\ ret' = entry
        /\ IF Len(stack) = 1
           THEN /\ stack' = <<>>
                /\ result' = r
           ELSE /\ stack' =
                     SubSeq(stack, 1, Len(stack) - 2) \o
                     <<[stack[Len(stack) - 1] EXCEPT
                          !.res = r, !.calls = Append(@, entry)]>>
                /\ UNCHANGED result
        /\ UNCHANGED <<levels, startingFrom>>

At(kind, pc) == running /\ top.p.kind = kind /\ top.pc = pc

\* ---------------------------------------------------------------- closures
nothingResult(in) ==
    Success(undef, in, ParseSource(in.code, in.index, in.index))

nothing_run == At("nothing", "start") /\ Return(nothingResult(top.input))

exactResult(str, in) ==
    IF startsWith(in.code, in.index, str)
    THEN LET end == in.index + Len(str)
         IN  Success(Str(str), [in EXCEPT !.index = end],
                     ParseSource(in.code, in.index, end))
    ELSE undefined

exact_run == At("exact", "start") /\ Return(exactResult(top.p.str, top.input))

charResult(in) ==
    IF in.index >= 0 /\ in.index < Len(in.code)
    THEN Success(Str(<<in.code[in.index + 1]>>),
                 [in EXCEPT !.index = in.index + 1],
                 ParseSource(in.code, in.index, in.index + 1))
    ELSE undefined

char_run == At("char", "start") /\ Return(charResult(top.input))

filterResult_inverted(pred, res) ==
    IF res.kind = "success" /\ Pred(pred, res.parsed) THEN undefined ELSE res

filterResult(pred, res) ==
    IF res.kind = "success" /\ ~Pred(pred, res.parsed) THEN undefined ELSE res

filter_call ==
    At("filter", "start") /\
    Call([top EXCEPT !.pc = "res"], top.p.parsers[1], top.input)

filter_return ==
    At("filter", "res") /\ Return(filterResult(top.p.pred, top.res))

mapResult(fn, res) ==
    IF res.kind = "success"
    THEN [res EXCEPT !.parsed = Fn(fn, res.parsed, res.src)]
    ELSE res

map_call ==
    At("map", "start") /\
    Call([top EXCEPT !.pc = "res"], top.p.parsers[1], top.input)

map_return == At("map", "res") /\ Return(mapResult(top.p.fn, top.res))

requiredResult_overrides(error, in, res) ==
    IF res.kind # "success" THEN Failure(in, ErrorFn(error, in)) ELSE res

requiredResult(error, in, res) ==
    IF res = undefined THEN Failure(in, ErrorFn(error, in)) ELSE res

required_call ==
    At("required", "start") /\
    Call([top EXCEPT !.pc = "res"], top.p.parsers[1], top.input)

required_return ==
    At("required", "res") /\
    Return(requiredResult(top.p.error, top.input, top.res))

optionalResult_absorbsErrors(in, res) ==
    IF res.kind # "success" THEN nothingResult(in) ELSE res

optionalResult(in, res) ==
    IF res = undefined THEN nothingResult(in) ELSE res

optional_call ==
    At("optional", "start") /\
    Call([top EXCEPT !.pc = "res"], top.p.parsers[1], top.input)

optional_return ==
    At("optional", "res") /\ Return(optionalResult(top.input, top.res))


decisive_successOnly(res) == res.kind = "success"

\* `res != null`: oneOf stops at the first result that is not undefined.
decisive(res) == res # undefined

oneOf_next ==
    /\ At("oneOf", "start")
    /\ IF top.i <= Len(top.p.parsers)
       THEN Call([top EXCEPT !.pc = "res"], top.p.parsers[top.i], top.input)
       ELSE Return(undefined)

oneOf_check ==
    /\ At("oneOf", "res")
    /\ IF decisive(top.res)
       THEN Return(top.res)
       ELSE Step([top EXCEPT !.pc = "start", !.i = @ + 1])

tupleResult_spanFromEnd(items, in, nextInput) ==
    Success(Arr(items), nextInput,
            ParseSource(in.code, nextInput.index, nextInput.index))

tupleResult(items, in, nextInput) ==
    Success(Arr(items), nextInput,
            ParseSource(in.code, in.index, nextInput.index))

tuple_next ==
    /\ At("tuple", "start")
    /\ IF top.i <= Len(top.p.parsers)
       THEN Call([top EXCEPT !.pc = "res"], top.p.parsers[top.i], top.nextInput)
       ELSE Return(tupleResult(top.items, top.input, top.nextInput))

tuple_check ==
    /\ At("tuple", "res")
    /\ IF top.res.kind = "success"
       THEN Step([top EXCEPT !.pc = "start", !.i = @ + 1,
                             !.nextInput = top.res.input,
                             !.items = Append(@, top.res.parsed)])
       ELSE Return(top.res)

\* `sep != null`
hasSep(parser) == Len(parser.parsers) = 2

manySep0Result_noneWhenEmpty(items, in, nextInput) ==
    IF items = <<>>
    THEN undefined
    ELSE Success(Arr(items), nextInput,
                 ParseSource(in.code, in.index, nextInput.index))

manySep0Result(items, in, nextInput) ==
    Success(Arr(items), nextInput,
            ParseSource(in.code, in.index, nextInput.index))

manySep0_loop ==
    /\ At("manySep0", "start")
    /\ IF Len(top.items) > 0 /\ hasSep(top.p)
       THEN Call([top EXCEPT !.pc = "sep"], top.p.parsers[2], top.nextInput)
       ELSE Call([top EXCEPT !.pc = "item"], top.p.parsers[1], top.nextInput)

\* The cursor manySep0 goes on from after its separator matched.
afterSep(nextInput, sepResult) == sepResult.input

manySep0_sep ==
    /\ At("manySep0", "sep")
    /\ LET sepResult == top.res
       IN  IF sepResult = undefined
           THEN Return(manySep0Result(top.items, top.input, top.nextInput))
           ELSE IF sepResult.kind = "error"
           THEN Return(sepResult)
           ELSE Call([top EXCEPT !.pc = "item",
                                 !.nextInput = afterSep(top.nextInput, sepResult)],
                     top.p.parsers[1], afterSep(top.nextInput, sepResult))

manySep0_item ==
    /\ At("manySep0", "item")
    /\ LET itemResult == top.res
       IN  IF itemResult = undefined
           THEN Return(manySep0Result(top.items, top.input, top.nextInput))
           ELSE IF itemResult.kind = "error"
           THEN Return(itemResult)
           ELSE /\ top.iter < MaxIter
                /\ Step([top EXCEPT !.pc = "start", !.iter = @ + 1,
                                    !.nextInput = itemResult.input,
                                    !.items = Append(@, itemResult.parsed)])

failed_never(res) == FALSE

\* `charResult.kind === 'error'` in take0's loop
failed(res) == res.kind = "error"

take0Result(res, in, nextInput) ==
    Success(Str(res), nextInput,
            ParseSource(in.code, in.index, nextInput.index))

take0_loop ==
    /\ At("take0", "start")
    /\ Call([top EXCEPT !.pc = "res"], top.p.parsers[1], top.nextInput)

take0_check ==
    /\ At("take0", "res")
    /\ LET charRes == top.res
       IN  IF charRes = undefined
           THEN Return(take0Result(top.text, top.input, top.nextInput))
           ELSE IF failed(charRes)
           THEN Return(charRes)
           ELSE /\ top.iter < MaxIter
                /\ Step([top EXCEPT !.pc = "start", !.iter = @ + 1,
                                    !.nextInput = charRes.input,
                                    !.text = @ \o charRes.parsed.s])

Next ==
    \/ nothing_run
    \/ exact_run
    \/ char_run
    \/ filter_call
    \/ filter_return
    \/ map_call
    \/ map_return
    \/ required_call
    \/ required_return
    \/ optional_call
    \/ optional_return
    \/ oneOf_next
    \/ oneOf_check
    \/ tuple_next
    \/ tuple_check
    \/ manySep0_loop
    \/ manySep0_sep
    \/ manySep0_item
    \/ take0_loop
    \/ take0_check

Spec == Init /\ [][Next]_vars



\* ------------------------------------------------------------ claim helpers
\* The invocation that returned last made n sub-parser invocations.
n == Len(ret.calls)
sub(j) == ret.calls[j]

\* The frame on top has just received `ret` from the sub-parser it invoked.
JustReturned ==
    /\ running
    /\ top.calls # <<>>
    /\ top.calls[Len(top.calls)] = ret
    /\ top.pc \in {"res", "sep", "item"}

Combinators ==
    {"map", "filter", "required", "optional", "oneOf", "tuple", "manySep0",
     "take0"}

\* One sub-parser, invoked once, at the cursor the wrapper received.
InvokesOnce ==
    /\ n = 1
    /\ sub(1).p = ret.p.parsers[1]
    /\ sub(1).input = ret.input

\* manySep1 / many1 / take1: the one-or-more form of a repetition.
IsOneOrMore(parser) ==
    /\ parser.kind = "filter"
    /\ parser.pred = "lengthGt0"
    /\ parser.parsers[1].kind \in {"manySep0", "take0"}

\* C1: once a sub-parser returns an error result, the combinator that
\* invoked it returns that very result (same cursor, same payload) and
\* invokes nothing after it; no pending combinator has an error in its log.
C1_CommitPoint ==
    /\ ret.p.kind \in Combinators =>
          \A j \in 1..n :
              sub(j).res.kind = "error" => j = n /\ ret.res = sub(j).res
    /\ \A k \in 1..Len(stack) :
          \A j \in 1..Len(stack[k].calls) :
              stack[k].calls[j].res.kind = "error" =>
                  /\ k = Len(stack)
                  /\ j = Len(stack[k].calls)
                  /\ stack[k].pc \in {"res", "sep", "item"}

\* A repetition that had accumulated an item returns a sub-parser's error.
C1_Witness ==
    /\ ret.p.kind = "manySep0"
    /\ n >= 2
    /\ sub(1).res.kind = "success"
    /\ sub(n).res.kind = "error"
    /\ ret.res = sub(n).res

\* C2: oneOf invokes its alternatives in order at the cursor it received,
\* returns the first result that is not undefined and invokes nothing after
\* it; it returns undefined exactly when every alternative did.
C2_OneOf ==
    ret.p.kind = "oneOf" =>
        /\ n <= Len(ret.p.parsers)
        /\ \A j \in 1..n :
              /\ sub(j).p = ret.p.parsers[j]
              /\ sub(j).input = ret.input
        /\ \A j \in 1..(n - 1) : sub(j).res = undefined
        /\ IF n > 0 /\ sub(n).res # undefined
           THEN ret.res = sub(n).res
           ELSE n = Len(ret.p.parsers) /\ ret.res = undefined

\* oneOf(exact('a'), char) returns after exact('a') on a code where char
\* matches too.
C2_Witness ==
    /\ ret.p = oneOf(<<exact(<<"a">>), char>>)
    /\ n = 1
    /\ ret.res.kind = "success"
    /\ charResult(ret.input).kind = "success"

\* C3: tuple runs its pieces in order, each at the cursor left by the one
\* before; it succeeds exactly when all of them do, with their values in
\* order, the last cursor and the span from its own cursor to the last one;
\* otherwise it returns the result of the first piece that did not succeed.
C3_Tuple ==
    ret.p.kind = "tuple" =>
        LET last == IF n = 0 THEN ret.input ELSE sub(n).res.input
        IN  /\ n <= Len(ret.p.parsers)
            /\ \A j \in 1..n :
                  /\ sub(j).p = ret.p.parsers[j]
                  /\ sub(j).input =
                        IF j = 1 THEN ret.input ELSE sub(j - 1).res.input
            /\ \A j \in 1..(n - 1) : sub(j).res.kind = "success"
            /\ ret.res.kind = "success" <=>
                  /\ n = Len(ret.p.parsers)
                  /\ \A j \in 1..n : sub(j).res.kind = "success"
            /\ IF ret.res.kind = "success"
               THEN /\ Len(ret.res.parsed.a) = n
                    /\ ret.res.parsed.t = "array"
                    /\ \A j \in 1..n : ret.res.parsed.a[j] = sub(j).res.parsed
                    /\ ret.res.input = last
                    /\ ret.res.src =
                          ParseSource(ret.input.code, ret.input.index, last.index)
               ELSE /\ n > 0
                    /\ ret.res = sub(n).res

\* A tuple of two or more pieces succeeds from a cursor inside the code.
C3_Witness ==
    /\ ret.p.kind = "tuple"
    /\ n >= 2
    /\ ret.res.kind = "success"
    /\ ret.input.index > 0
    /\ ret.res.input.index > ret.input.index

\* the code is an opening quote followed by no further quote
Unterminated(code) ==
    /\ Len(code) >= 1
    /\ code[1] = Quote
    /\ \A k \in 2..Len(code) : code[k] # Quote

\* C4: required turns undefined into an error at the cursor it received,
\* with the payload its callback makes of that cursor, and returns every
\* other result unchanged; so a required piece that fails inside a tuple
\* reports the cursor the earlier pieces reached (the end of the code for an
\* unterminated string).
C4_Required ==
    /\ ret.p.kind = "required" =>
          /\ InvokesOnce
          /\ ret.res =
                IF sub(1).res = undefined
                THEN Failure(ret.input, ErrorFn(ret.p.error, ret.input))
                ELSE sub(1).res
    /\ (/\ ret.p.kind = "tuple"
        /\ n > 0
        /\ sub(n).p.kind = "required"
        /\ sub(n).calls[1].res = undefined) =>
          /\ ret.res.kind = "error"
          /\ ret.res.input =
                IF n = 1 THEN ret.input ELSE sub(n - 1).res.input
          /\ ret.res.error.index = ret.res.input.index
    /\ (~running /\ ret.p = string /\ Unterminated(ret.input.code)) =>
          /\ result.kind = "error"
          /\ result.input.index = Len(ret.input.code)
          /\ result.error = ErrorFn(closingQuote, result.input)

\* The string grammar ends on an unterminated string of two characters.
C4_Witness ==
    /\ ~running
    /\ ret.p = string
    /\ Unterminated(ret.input.code)
    /\ result.kind = "error"
    /\ result.input.index = 2

\* C5: optional turns undefined into a success of undefined at the cursor
\* it received with an empty span, and returns every other result
\* unchanged; it never returns undefined; an enclosing oneOf stops at it, an
\* enclosing tuple goes on after it and an enclosing required does not fail
\* on it.
C5_Optional ==
    /\ ret.p.kind = "optional" =>
          /\ InvokesOnce
          /\ ret.res # undefined
          /\ ret.res =
                IF sub(1).res = undefined
                THEN Success(undef, ret.input,
                             ParseSource(ret.input.code, ret.input.index,
                                         ret.input.index))
                ELSE sub(1).res
          /\ ret.res.kind = "error" => sub(1).res.kind = "error"
    /\ ret.p.kind = "oneOf" =>
          \A j \in 1..n :
              sub(j).p.kind = "optional" => j = n /\ ret.res = sub(j).res
    /\ ret.p.kind = "tuple" =>
          \A j \in 1..n :
              (/\ sub(j).p.kind = "optional"
               /\ sub(j).calls[1].res = undefined
               /\ j < Len(ret.p.parsers)) => n > j
    /\ (ret.p.kind = "required" /\ n = 1 /\ sub(1).p.kind = "optional") =>
          /\ ret.res = sub(1).res
          /\ ret.res.kind = "error" => sub(1).calls[1].res.kind = "error"

\* optional finds nothing at a cursor inside the code.
C5_Witness ==
    /\ ret.p.kind = "optional"
    /\ sub(1).res = undefined
    /\ ret.res.kind = "success"
    /\ ret.input.index > 0

\* C6: filter returns undefined when its parser succeeds with a value the
\* predicate rejects and returns the parser's result otherwise; after a
\* rejection the caller still stands at the cursor it invoked filter at, and
\* what it tries next starts there.
C6_Filter ==
    /\ ret.p.kind = "filter" =>
          /\ InvokesOnce
          /\ ret.res =
                IF /\ sub(1).res.kind = "success"
                   /\ ~Pred(ret.p.pred, sub(1).res.parsed)
                THEN undefined
                ELSE sub(1).res
    /\ (/\ JustReturned
        /\ ret.p.kind = "filter"
        /\ sub(1).res.kind = "success"
        /\ ret.res = undefined) =>
          top.nextInput = ret.input
    /\ ret.p.kind = "oneOf" =>
          \A j \in 1..(n - 1) :
              sub(j).p.kind = "filter" => sub(j + 1).input = sub(j).input

\* oneOf goes on to its next alternative after a filter rejected a
\* character its parser had consumed.
C6_Witness ==
    /\ ret.p.kind = "oneOf"
    /\ n >= 2
    /\ sub(1).p.kind = "filter"
    /\ sub(1).calls[1].res.kind = "success"
    /\ sub(1).res = undefined
    /\ sub(2).input.index < sub(1).calls[1].res.input.index


\* C7: manySep0 / many0 / take0 never return undefined, and return an empty
\* array (empty string for take0) with an empty span at the cursor they
\* received when their first item invocation returns undefined; manySep1 /
\* many1 / take1 return undefined in exactly that case and otherwise what
\* the zero-or-more form returns.
C7_ZeroMatch ==
    /\ ret.p.kind \in {"manySep0", "take0"} =>
          /\ ret.res # undefined
          /\ sub(1).input = ret.input
          /\ sub(1).res = undefined =>
                ret.res =
                    Success(IF ret.p.kind = "take0" THEN Str(<<>>) ELSE Arr(<<>>),
                            ret.input,
                            ParseSource(ret.input.code, ret.input.index,
                                        ret.input.index))
    /\ IsOneOrMore(ret.p) =>
          /\ InvokesOnce
          /\ sub(1).calls[1].input = ret.input
          /\ ret.res = undefined <=> sub(1).calls[1].res = undefined
          /\ ret.res # undefined => ret.res = sub(1).res

\* A one-or-more repetition returns undefined where the zero-or-more form
\* it wraps returned an empty success.
C7_Witness ==
    /\ IsOneOrMore(ret.p)
    /\ ret.res = undefined
    /\ sub(1).res.kind = "success"
    /\ length(sub(1).res.parsed) = 0
    /\ sub(1).res.input = ret.input

\* the marker is one of the declared levels
Declared == \E k \in 1..Len(levels) : levels[k] = startingFrom

\* position of the marker in the declared list (0: no marker)
MarkerPosition ==
    IF startingFrom = NoParser
    THEN 0
    ELSE CHOOSE k \in 1..Len(levels) :
            /\ levels[k] = startingFrom
            /\ \A j \in 1..(k - 1) : levels[j] # startingFrom

PairwiseDistinct ==
    \A j, k \in 1..Len(levels) : j # k => levels[j] # levels[k]

\* C8: the parser precedence(...levels)(marker) returns for a declared
\* marker at position i acts as oneOf over the levels after i, in declared
\* order (over all levels without a marker, undefined for the last level);
\* with pairwise distinct levels it invokes neither the marker level nor a
\* level declared before it.
C8_Precedence ==
    (/\ ~running
     /\ levels # <<>>
     /\ startingFrom = NoParser \/ Declared) =>
        LET i == MarkerPosition
            m == Len(levels) - i
        IN  /\ n <= m
            /\ \A j \in 1..n :
                  /\ sub(j).p = levels[i + j]
                  /\ sub(j).input = ret.input
            /\ \A j \in 1..(n - 1) : sub(j).res = undefined
            /\ IF n > 0 /\ sub(n).res # undefined
               THEN result = sub(n).res
               ELSE n = m /\ result = undefined
            /\ i = Len(levels) => result = undefined
            /\ PairwiseDistinct =>
                  \A j \in 1..n : \A k \in 1..i : sub(j).p # levels[k]

\* With the first level as marker the selector goes straight to the second
\* level on a code the first level would match.
C8_Witness ==
    /\ ~running
    /\ levels = LevelLists[1]
    /\ startingFrom = Level1
    /\ n = 1
    /\ sub(1).p = Level2
    /\ result.kind = "success"
    /\ exactResult(Level1.str, ret.input).kind = "success"

\* C9: a repetition completes within a number of loop iterations bounded by
\* the length of the code, whatever its item parser, including items that
\* succeed without consuming input.
C9_Termination ==
    \A k \in 1..Len(stack) :
        stack[k].p.kind \in {"manySep0", "take0"} =>
            stack[k].iter <= Len(stack[k].input.code)

\* odd invocations of manySep0 with a separator are items, even ones
\* separators
Accumulated == {j \in 1..n : j % 2 = 1 /\ sub(j).res.kind = "success"}
Separators == {j \in 1..n : j % 2 = 0 /\ sub(j).res.kind = "success"}

\* cursor left by the last accumulated item
LastItemCursor ==
    IF Accumulated = {}
    THEN ret.input
    ELSE sub(CHOOSE j \in Accumulated : \A k \in Accumulated : k <= j).res.input

\* C10: manySep0 with a separator returns the cursor left by its last
\* accumulated item, never one behind a trailing separator, and consumes one
\* separator less than it accumulates items.
C10_Separator ==
    (ret.p.kind = "manySep0" /\ hasSep(ret.p) /\ ret.res.kind = "success") =>
        /\ ret.res.input = LastItemCursor
        /\ ret.res.src.end = LastItemCursor.index
        /\ Accumulated # {} =>
              Cardinality(Separators) = Cardinality(Accumulated) - 1

====
